---------------------------- MODULE Spec2Model ----------------------------
(***************************************************************************)
(* A model of the surebet dashboard API: the sheet registry, the in-memory *)
(* cache of spreadsheet rows and the request handlers of index.js, the     *)
(* spreadsheet reader of sheets.js, and the statistics of                  *)
(* buildStatsFromData.                                                     *)
(*                                                                         *)
(* The handlers are asynchronous: a handler runs atomically from one await *)
(* to the next (one JavaScript thread), and other handlers run in between. *)
(* Every action below is one such atomic piece.                            *)
(***************************************************************************)
EXTENDS Integers, Sequences, FiniteSets, Bags, TLC

(***************************************************************************)
(* Bounds of the model.                                                    *)
(***************************************************************************)
\* requests that may be in flight at the same time
MaxReq == 2
\* sheets that are ever registered (ids run from 1, never reused)
MaxSheets == 2
\* refresh requests
MaxRefresh == 1

SheetIds == 1..MaxSheets

VARIABLES
    \* the API: registry, cache and requests
    registry,       \* table "sheets": the set of ids of the registered sheets
    lastId,         \* sqlite's AUTOINCREMENT counter of table "sheets"
    sheetRowsCache, \* the Map sheet.id -> rows of index.js
    remoteVer,      \* the content of the remote spreadsheets: one of two versions
    req,            \* the requests in flight: a bag of request records
    refreshes,      \* history: the number of refresh requests answered
    deletedOk,      \* history: ids whose DELETE has answered { success: true }
    lastRead,       \* history: the rows last handed to an overview request
    \* one call of a function of the pipeline
    call,           \* the function called and its arguments
    step,           \* how far the call has come
    out             \* what it has computed so far

apiVars == <<registry, lastId, sheetRowsCache, remoteVer, req, refreshes, deletedOk, lastRead>>

callVars == <<call, step, out>>

vars == <<apiVars, callVars>>

(***************************************************************************)
(* The Map operations of sheetRowsCache.  An entry is the rows of one      *)
(* sheet: the content version that was read (ver) and, as history, the     *)
(* number of refreshes answered when its fetch began (began).              *)
(***************************************************************************)
EmptyCache == [k \in {} |-> [ver |-> 0, began |-> 0]]

CacheSet(c, k, v) == [x \in (DOMAIN c) \cup {k} |-> IF x = k THEN v ELSE c[x]]

CacheDelete(c, k) == [x \in (DOMAIN c) \ {k} |-> c[x]]

\* the lookup always misses
CacheHasNever(c, k) == FALSE

\* sheetRowsCache.get(sheet.id) is truthy
CacheHas(c, k) == k \in DOMAIN c

(***************************************************************************)
(* A request in flight.  pc says which handler runs and at which await it  *)
(* waits; id is the sheet it works on; todo the sheets overview-all has    *)
(* still to read; start the refresh count when the request arrived; began  *)
(* the refresh count when its spreadsheet fetch began.  A request that has *)
(* been answered leaves the bag.  A request that is rejected at once (400: *)
(* no sheetDbId, no name) changes nothing and is left out.                 *)
(***************************************************************************)
NewReq(pc, id, start) == [pc |-> pc, id |-> id, todo |-> <<>>, start |-> start, began |-> 0]

Arrive(q, r) == q (+) SetToBag({r})

Leave(q, r) == q (-) SetToBag({r})

Move(q, r, r2) == Arrive(Leave(q, r), r2)

InFlight == BagToSet(req)

\* the rows handed to request r: from the cache (hit) or from its own fetch
Read(r, rows, hit) == [hit |-> hit, start |-> r.start, began |-> rows.began]

\* the ids of set S in ascending order (SELECT * FROM sheets: rowid order)
RECURSIVE Ascending(_)
Ascending(S) ==
    IF S = {} THEN <<>>
    ELSE LET m == CHOOSE x \in S : \A y \in S : x <= y
         IN <<m>> \o Ascending(S \ {m})

\* overview-all reads its sheets one after the other; a sheet found in the
\* cache is read without waiting, so the loop runs on to its first miss
RECURSIVE AfterHits(_, _)
AfterHits(todo, c) ==
    IF todo = <<>> \/ ~CacheHas(c, Head(todo)) THEN todo
    ELSE AfterHits(Tail(todo), c)

\* the last sheet the loop read from the cache on its way (0: none)
RECURSIVE LastHit(_, _, _)
LastHit(todo, c, sofar) ==
    IF todo = <<>> \/ ~CacheHas(c, Head(todo)) THEN sofar
    ELSE LastHit(Tail(todo), c, Head(todo))

Init ==
    /\ registry = {}
    /\ lastId = 0
    /\ sheetRowsCache = EmptyCache
    /\ remoteVer = 0
    /\ req = EmptyBag
    /\ refreshes = 0
    /\ deletedOk = {}
    /\ lastRead = [hit |-> FALSE, start |-> 0, began |-> 0]
    /\ call = "api"
    /\ step = 0
    /\ out = <<>>

(***************************************************************************)
(* The owner of a spreadsheet edits it.                                    *)
(***************************************************************************)
EditSpreadsheet ==
    /\ remoteVer' = 1 - remoteVer
    /\ UNCHANGED callVars
    /\ UNCHANGED <<registry, lastId, sheetRowsCache, req, refreshes, deletedOk, lastRead>>

(***************************************************************************)
(* GET /api/sheets                                                         *)
(***************************************************************************)
ListStart ==
    /\ BagCardinality(req) < MaxReq
    /\ req' = Arrive(req, NewReq("list_db", 0, 0))
    /\ UNCHANGED callVars
    /\ UNCHANGED <<registry, lastId, sheetRowsCache, remoteVer, refreshes, deletedOk, lastRead>>

\* SELECT * FROM sheets ORDER BY id DESC; res.json(rows)
ListDone(r) ==
    /\ r.pc = "list_db"
    /\ req' = Leave(req, r)
    /\ UNCHANGED callVars
    /\ UNCHANGED <<registry, lastId, sheetRowsCache, remoteVer, refreshes, deletedOk, lastRead>>

(***************************************************************************)
(* POST /api/sheets                                                        *)
(***************************************************************************)
PostStart ==
    /\ BagCardinality(req) < MaxReq
    /\ lastId < MaxSheets
    /\ req' = Arrive(req, NewReq("post_insert", 0, 0))
    /\ UNCHANGED callVars
    /\ UNCHANGED <<registry, lastId, sheetRowsCache, remoteVer, refreshes, deletedOk, lastRead>>

\* INSERT INTO sheets: the next id
PostInsert(r) ==
    /\ r.pc = "post_insert"
    /\ lastId < MaxSheets
    /\ lastId' = lastId + 1
    /\ registry' = registry \cup {lastId + 1}
    /\ req' = Move(req, r, [r EXCEPT !.pc = "post_get", !.id = lastId + 1])
    /\ UNCHANGED callVars
    /\ UNCHANGED <<sheetRowsCache, remoteVer, refreshes, deletedOk, lastRead>>

\* SELECT the created row
PostGet(r) ==
    /\ r.pc = "post_get"
    /\ req' = Move(req, r, [r EXCEPT !.pc = "post_clear"])
    /\ UNCHANGED callVars
    /\ UNCHANGED <<registry, lastId, sheetRowsCache, remoteVer, refreshes, deletedOk, lastRead>>

\* sheetRowsCache.clear(); 201
PostDone(r) ==
    /\ r.pc = "post_clear"
    /\ sheetRowsCache' = EmptyCache
    /\ req' = Leave(req, r)
    /\ UNCHANGED callVars
    /\ UNCHANGED <<registry, lastId, remoteVer, refreshes, deletedOk, lastRead>>

(***************************************************************************)
(* DELETE /api/sheets/:id                                                  *)
(***************************************************************************)
DeleteStart(id) ==
    /\ BagCardinality(req) < MaxReq
    /\ req' = Arrive(req, NewReq("del_get", id, 0))
    /\ UNCHANGED callVars
    /\ UNCHANGED <<registry, lastId, sheetRowsCache, remoteVer, refreshes, deletedOk, lastRead>>

\* SELECT the sheet: 404 when it is not registered
DeleteGet(r) ==
    /\ r.pc = "del_get"
    /\ req' = IF r.id \in registry
              THEN Move(req, r, [r EXCEPT !.pc = "del_run"])
              ELSE Leave(req, r)
    /\ UNCHANGED callVars
    /\ UNCHANGED <<registry, lastId, sheetRowsCache, remoteVer, refreshes, deletedOk, lastRead>>

\* DELETE FROM sheets
DeleteRun(r) ==
    /\ r.pc = "del_run"
    /\ registry' = registry \ {r.id}
    /\ req' = Move(req, r, [r EXCEPT !.pc = "del_cache"])
    /\ UNCHANGED callVars
    /\ UNCHANGED <<lastId, sheetRowsCache, remoteVer, refreshes, deletedOk, lastRead>>

\* sheetRowsCache.delete(sheet.id); { success: true }
DeleteDone(r) ==
    /\ r.pc = "del_cache"
    /\ sheetRowsCache' = CacheDelete(sheetRowsCache, r.id)
    /\ deletedOk' = deletedOk \cup {r.id}
    /\ req' = Leave(req, r)
    /\ UNCHANGED callVars
    /\ UNCHANGED <<registry, lastId, remoteVer, refreshes, lastRead>>

(***************************************************************************)
(* POST /api/dashboard/refresh-sheets: no await, one piece                 *)
(***************************************************************************)
Refresh ==
    /\ refreshes < MaxRefresh
    /\ sheetRowsCache' = EmptyCache
    /\ refreshes' = refreshes + 1
    /\ UNCHANGED callVars
    /\ UNCHANGED <<registry, lastId, remoteVer, req, deletedOk, lastRead>>

(***************************************************************************)
(* getCachedSheetRows(sheet), as the two overview handlers use it: a hit   *)
(* returns the cached rows without waiting; on a miss the handler waits    *)
(* for getSheetRows, which returns the rows (...FetchDone) or throws       *)
(* (FetchFail).                                                            *)
(***************************************************************************)
Fetching(r) == r.pc \in {"ov_fetch", "all_fetch"}

\* getSheetRows throws: the handler's catch answers 500
FetchFail(r) ==
    /\ Fetching(r)
    /\ req' = Leave(req, r)
    /\ UNCHANGED callVars
    /\ UNCHANGED <<registry, lastId, sheetRowsCache, remoteVer, refreshes, deletedOk, lastRead>>

\* the rows a fetch that began at refresh count b returns now
FetchedRows(b) == [ver |-> remoteVer, began |-> b]

(***************************************************************************)
(* GET /api/dashboard/overview?sheetDbId=id                                *)
(***************************************************************************)
OverviewStart(id) ==
    /\ BagCardinality(req) < MaxReq
    /\ req' = Arrive(req, NewReq("ov_get", id, refreshes))
    /\ UNCHANGED callVars
    /\ UNCHANGED <<registry, lastId, sheetRowsCache, remoteVer, refreshes, deletedOk, lastRead>>

\* SELECT the sheet: 404 when it is not registered
OverviewGet(r) ==
    /\ r.pc = "ov_get"
    /\ req' = IF r.id \in registry
              THEN Move(req, r, [r EXCEPT !.pc = "ov_cache"])
              ELSE Leave(req, r)
    /\ UNCHANGED callVars
    /\ UNCHANGED <<registry, lastId, sheetRowsCache, remoteVer, refreshes, deletedOk, lastRead>>

\* getCachedSheetRows: a hit answers with the cached rows, a miss fetches
OverviewCache(r) ==
    /\ r.pc = "ov_cache"
    /\ IF CacheHas(sheetRowsCache, r.id)
       THEN /\ req' = Leave(req, r)
            /\ lastRead' = Read(r, sheetRowsCache[r.id], TRUE)
       ELSE /\ req' = Move(req, r, [r EXCEPT !.pc = "ov_fetch", !.began = refreshes])
            /\ UNCHANGED lastRead
    /\ UNCHANGED callVars
    /\ UNCHANGED <<registry, lastId, sheetRowsCache, remoteVer, refreshes, deletedOk>>

\* the fetch returned: sheetRowsCache.set(sheet.id, { rows, updatedAt }); 200
OverviewFetchDone(r) ==
    /\ r.pc = "ov_fetch"
    /\ sheetRowsCache' = CacheSet(sheetRowsCache, r.id, FetchedRows(r.began))
    /\ lastRead' = Read(r, FetchedRows(r.began), FALSE)
    /\ req' = Leave(req, r)
    /\ UNCHANGED callVars
    /\ UNCHANGED <<registry, lastId, remoteVer, refreshes, deletedOk>>

(***************************************************************************)
(* GET /api/dashboard/overview-all.  The operador parameter lets through   *)
(* whole sheets by their name; sel is the set of sheets it lets through.   *)
(***************************************************************************)
OverviewAllStart ==
    /\ BagCardinality(req) < MaxReq
    /\ req' = Arrive(req, NewReq("all_get", 0, refreshes))
    /\ UNCHANGED callVars
    /\ UNCHANGED <<registry, lastId, sheetRowsCache, remoteVer, refreshes, deletedOk, lastRead>>

\* SELECT * FROM sheets: 400 when there is none
OverviewAllGet(r) ==
    /\ r.pc = "all_get"
    /\ \E sel \in SUBSET registry :
         req' = IF registry = {}
                THEN Leave(req, r)
                ELSE Move(req, r, [r EXCEPT !.pc = "all_loop", !.todo = Ascending(sel)])
    /\ UNCHANGED callVars
    /\ UNCHANGED <<registry, lastId, sheetRowsCache, remoteVer, refreshes, deletedOk, lastRead>>

\* the loop over r's sheets still to read, up to its first cache miss (the
\* request waits for that fetch) or to its end (the request is answered);
\* own is the read to record when the loop reads nothing from the cache
LoopOn(r, c, own) ==
    LET rest == AfterHits(r.todo, c)
        hit  == LastHit(r.todo, c, 0)
    IN /\ req' = IF rest = <<>>
                 THEN Leave(req, r)
                 ELSE Move(req, r, [r EXCEPT !.pc = "all_fetch", !.id = Head(rest),
                                             !.todo = Tail(rest), !.began = refreshes])
       /\ lastRead' = IF hit # 0 THEN Read(r, c[hit], TRUE) ELSE own

OverviewAllLoop(r) ==
    /\ r.pc = "all_loop"
    /\ LoopOn(r, sheetRowsCache, lastRead)
    /\ UNCHANGED callVars
    /\ UNCHANGED <<registry, lastId, sheetRowsCache, remoteVer, refreshes, deletedOk>>

\* the fetch of one sheet returned: sheetRowsCache.set, then the loop goes on
OverviewAllFetchDone(r) ==
    /\ r.pc = "all_fetch"
    /\ sheetRowsCache' = CacheSet(sheetRowsCache, r.id, FetchedRows(r.began))
    /\ LoopOn(r, sheetRowsCache', Read(r, FetchedRows(r.began), FALSE))
    /\ UNCHANGED callVars
    /\ UNCHANGED <<registry, lastId, remoteVer, refreshes, deletedOk>>

Next ==
    \/ EditSpreadsheet
    \/ ListStart
    \/ \E r \in InFlight : ListDone(r)
    \/ PostStart
    \/ \E r \in InFlight : PostInsert(r)
    \/ \E r \in InFlight : PostGet(r)
    \/ \E r \in InFlight : PostDone(r)
    \/ \E id \in SheetIds : DeleteStart(id)
    \/ \E r \in InFlight : DeleteGet(r)
    \/ \E r \in InFlight : DeleteRun(r)
    \/ \E r \in InFlight : DeleteDone(r)
    \/ Refresh
    \/ \E r \in InFlight : FetchFail(r)
    \/ \E id \in SheetIds : OverviewStart(id)
    \/ \E r \in InFlight : OverviewGet(r)
    \/ \E r \in InFlight : OverviewCache(r)
    \/ \E r \in InFlight : OverviewFetchDone(r)
    \/ OverviewAllStart
    \/ \E r \in InFlight : OverviewAllGet(r)
    \/ \E r \in InFlight : OverviewAllLoop(r)
    \/ \E r \in InFlight : OverviewAllFetchDone(r)

Spec == Init /\ [][Next]_vars

(***************************************************************************)
(* Claims about the registry and the cache.                                *)
(***************************************************************************)

\* C1: once DELETE /api/sheets/:id has answered { success: true }, the registry
\* no longer lists the sheet and the cache holds no entry under its id, in
\* every later state, whatever other requests are in flight.
C1_DeletedSheetStaysGone ==
    \A id \in deletedOk : id \notin registry /\ id \notin DOMAIN sheetRowsCache

\* C2: an overview or overview-all request that arrives after a refresh was
\* answered is handed rows whose spreadsheet fetch began after that refresh:
\* no refresh lies between the beginning of the fetch and the arrival of the
\* request.
C2_ReadsAfterRefreshAreFresh == lastRead.began >= lastRead.start

\* the number of requests in bag q that wait for the fetch of sheet x
FetchCount(q, x) ==
    LET S == {r \in BagToSet(q) : Fetching(r) /\ r.id = x}
    IN BagCardinality([r \in S |-> q[r]])

\* this step is one of the invalidations of the entry of sheet id: a
\* registration, the deletion of that sheet, a refresh
Invalidates(id) ==
    \/ \E r \in InFlight : PostDone(r)
    \/ \E r \in InFlight : r.id = id /\ DeleteDone(r)
    \/ Refresh

\* this step completes the fetch of sheet id that a request began on a miss
MissCompletes(id) ==
    \E r \in InFlight :
        /\ Fetching(r)
        /\ r.id = id
        /\ (OverviewFetchDone(r) \/ OverviewAllFetchDone(r))

\* the entry of sheet id is the same after the step
EntryKept(id) ==
    /\ id \in DOMAIN sheetRowsCache'
    /\ sheetRowsCache'[id] = sheetRowsCache[id]

\* a step begins a fetch of a sheet only when the cache holds no entry of it
NoFetchOnHit ==
    \A x \in SheetIds :
        FetchCount(req', x) > FetchCount(req, x) => x \notin DOMAIN sheetRowsCache'

\* C3 (as claimed): an entry of the cache stays the same until a registration,
\* a deletion of its sheet or a refresh; no overview, overview-all or list
\* request replaces or removes it, also not one that completes an earlier
\* miss; and a request that finds the entry performs no fetch.
C3_EntryChangesOnlyByInvalidation ==
    [][(\A id \in DOMAIN sheetRowsCache : EntryKept(id) \/ Invalidates(id))
       /\ NoFetchOnHit]_vars

\* C3 (amended): an entry of the cache stays the same until a registration, a
\* deletion of its sheet, a refresh, or the completion of a fetch of that
\* sheet which a request began on a miss (a concurrent duplicate fetch
\* overwrites the entry); a request that finds the entry performs no fetch.
C3_EntryChangesOnlyByInvalidationOrMiss ==
    [][(\A id \in DOMAIN sheetRowsCache :
            EntryKept(id) \/ Invalidates(id) \/ MissCompletes(id))
       /\ NoFetchOnHit]_vars

\* C3: a request was answered from an entry of the cache, and a request that
\* missed earlier still waits for its fetch of a sheet the cache now holds
C3_Witness ==
    /\ lastRead.hit
    /\ \E r \in InFlight : Fetching(r) /\ r.id \in DOMAIN sheetRowsCache

(***************************************************************************)
(* Text.  A text is a sequence of characters; a character is a string: an  *)
(* ASCII character stands for itself, and "TAB", "LF", "NBSP" (U+00A0),     *)
(* "E_ACUTE", "e_acute", "A_TILDE", "a_tilde" (letters with a diacritic)   *)
(* and "ACUTE", "TILDE" (the combining marks U+0301, U+0303) are single    *)
(* characters too.                                                         *)
(***************************************************************************)
Lowers == <<"a", "b", "c", "d", "e", "f", "g", "h", "i", "j", "k", "l", "m",
            "n", "o", "p", "q", "r", "s", "t", "u", "v", "w", "x", "y", "z">>

Uppers == <<"A", "B", "C", "D", "E", "F", "G", "H", "I", "J", "K", "L", "M",
            "N", "O", "P", "Q", "R", "S", "T", "U", "V", "W", "X", "Y", "Z">>

\* String.prototype.toUpperCase, one character
toUpperCase(c) ==
    IF \E i \in DOMAIN Lowers : Lowers[i] = c
    THEN Uppers[CHOOSE i \in DOMAIN Lowers : Lowers[i] = c]
    ELSE CASE c = "e_acute" -> "E_ACUTE"
           [] c = "a_tilde" -> "A_TILDE"
           [] OTHER -> c

\* normalize("NFD"), one character: a letter with a diacritic becomes the
\* letter followed by the combining mark
normalizeNFD(c) ==
    CASE c = "E_ACUTE" -> <<"E", "ACUTE">>
      [] c = "e_acute" -> <<"e", "ACUTE">>
      [] c = "A_TILDE" -> <<"A", "TILDE">>
      [] c = "a_tilde" -> <<"a", "TILDE">>
      [] OTHER -> <<c>>

\* [̀-ͯ]
IsMark(c) == c \in {"ACUTE", "TILDE"}

\* \s of a regular expression, and what trim() removes
IsSpace(c) == c \in {" ", "TAB", "LF", "NBSP"}

RECURSIVE MapNFD(_)
MapNFD(t) == IF t = <<>> THEN <<>> ELSE normalizeNFD(Head(t)) \o MapNFD(Tail(t))

\* .replace(/[̀-ͯ]/g, "")
RECURSIVE StripMarks(_)
StripMarks(t) ==
    IF t = <<>> THEN <<>>
    ELSE IF IsMark(Head(t)) THEN StripMarks(Tail(t))
    ELSE <<Head(t)>> \o StripMarks(Tail(t))

RECURSIVE SkipSpaces(_)
SkipSpaces(t) == IF t # <<>> /\ IsSpace(Head(t)) THEN SkipSpaces(Tail(t)) ELSE t

\* .replace(/\s+/g, " ")
RECURSIVE CollapseSpaces(_)
CollapseSpaces(t) ==
    IF t = <<>> THEN <<>>
    ELSE IF IsSpace(Head(t)) THEN <<" ">> \o CollapseSpaces(SkipSpaces(t))
    ELSE <<Head(t)>> \o CollapseSpaces(Tail(t))

RECURSIVE DropTrailingSpaces(_)
DropTrailingSpaces(t) ==
    IF t # <<>> /\ IsSpace(t[Len(t)]) THEN DropTrailingSpaces(SubSeq(t, 1, Len(t) - 1)) ELSE t

\* String.prototype.trim
trim(t) == DropTrailingSpaces(SkipSpaces(t))

\* String.prototype.includes
includes(t, p) == \E i \in 0..(Len(t) - Len(p)) : SubSeq(t, i + 1, i + Len(p)) = p

(***************************************************************************)
(* sheets.js: norm and canonicalHeaderName                                 *)
(***************************************************************************)
DATA_APOSTA == <<"D", "A", "T", "A", " ", "A", "P", "O", "S", "T", "A">>
LUCRO == <<"L", "U", "C", "R", "O">>
STAKE == <<"S", "T", "A", "K", "E">>
CASA == <<"C", "A", "S", "A">>
BOOK == <<"B", "O", "O", "K">>
ESPORTE == <<"E", "S", "P", "O", "R", "T", "E">>
ESPORTES == <<"E", "S", "P", "O", "R", "T", "E", "S">>
DATA_EVENTO == <<"D", "A", "T", "A", " ", "E", "V", "E", "N", "T", "O">>
DATA_JOGO == <<"D", "A", "T", "A", " ", "J", "O", "G", "O">>
EVENTO == <<"E", "V", "E", "N", "T", "O">>
PARTIDA == <<"P", "A", "R", "T", "I", "D", "A">>
MATCH == <<"M", "A", "T", "C", "H">>

\* the seven canonical names
CanonicalNames == {DATA_APOSTA, LUCRO, STAKE, CASA, ESPORTE, DATA_EVENTO, EVENTO}

norm(cell) ==
    trim(CollapseSpaces(StripMarks(MapNFD([i \in DOMAIN cell |-> toUpperCase(cell[i])]))))

\* the rules for EVENTO tried before the rules for DATA EVENTO, and by includes
canonicalHeaderNameEventoFirst(raw) ==
    LET n == norm(raw)
    IN IF includes(n, DATA_APOSTA) THEN DATA_APOSTA
       ELSE IF n = LUCRO THEN LUCRO
       ELSE IF n = STAKE THEN STAKE
       ELSE IF n = CASA \/ includes(n, BOOK) THEN CASA
       ELSE IF n = ESPORTE \/ n = ESPORTES THEN ESPORTE
       ELSE IF includes(n, EVENTO) \/ n = PARTIDA \/ includes(n, MATCH) THEN EVENTO
       ELSE IF includes(n, DATA_EVENTO) \/ includes(n, DATA_JOGO) THEN DATA_EVENTO
       ELSE trim(raw)

canonicalHeaderName(raw) ==
    LET n == norm(raw)
    IN IF includes(n, DATA_APOSTA) THEN DATA_APOSTA
       ELSE IF n = LUCRO THEN LUCRO
       ELSE IF n = STAKE THEN STAKE
       ELSE IF n = CASA \/ includes(n, BOOK) THEN CASA
       ELSE IF n = ESPORTE \/ n = ESPORTES THEN ESPORTE
       ELSE IF includes(n, DATA_EVENTO) \/ includes(n, DATA_JOGO) THEN DATA_EVENTO
       ELSE IF n = EVENTO \/ n = PARTIDA \/ includes(n, MATCH) THEN EVENTO
       ELSE trim(raw)

(***************************************************************************)
(* Calls of canonicalHeaderName: on a header text, then on its own result, *)
(* as extractRowsFromValues does with the header of an earlier tab.        *)
(***************************************************************************)
\* whitespace characters put around a header text
MaxPad == 1

\* header texts, as spreadsheets spell them
HeaderCores == {
    <<"D", "A", "T", "A", " ", "A", "P", "O", "S", "T", "A">>,
    <<"d", "a", "t", "a", " ", "a", "p", "o", "s", "t", "a">>,
    <<"D", "a", "t", "a", " ", " ", "A", "p", "o", "s", "t", "a">>,
    <<"D", "A", "T", "A", "TAB", "A", "P", "O", "S", "T", "A">>,
    <<"D", "A", "T", "A", " ", "A", "P", "O", "S", "T", "A", " ", "(", "B", "R", ")">>,
    <<"d", "i", "a", " ", "D", "A", "T", "A", " ", "A", "P", "O", "S", "T", "A">>,
    <<"D", "A", "T", "A", " ", "D", "A", " ", "A", "P", "O", "S", "T", "A">>,
    <<"L", "U", "C", "R", "O">>,
    <<"L", "u", "c", "r", "o">>,
    <<"L", "U", "C", "R", "O", "S">>,
    <<"S", "T", "A", "K", "E">>,
    <<"s", "t", "a", "k", "e">>,
    <<"C", "A", "S", "A">>,
    <<"c", "a", "s", "a">>,
    <<"C", "A", "S", "A", "S">>,
    <<"B", "O", "O", "K">>,
    <<"B", "o", "o", "k", "m", "a", "k", "e", "r">>,
    <<"E", "S", "P", "O", "R", "T", "E">>,
    <<"E", "S", "P", "O", "R", "T", "E", "S">>,
    <<"e", "s", "p", "o", "r", "t", "e", "s">>,
    <<"D", "A", "T", "A", " ", "E", "V", "E", "N", "T", "O">>,
    <<"D", "a", "t", "a", " ", "e", "v", "e", "n", "t", "o">>,
    <<"D", "A", "T", "A", " ", "J", "O", "G", "O">>,
    <<"d", "a", "t", "a", " ", "j", "o", "g", "o", " ", "2">>,
    <<"E", "V", "E", "N", "T", "O">>,
    <<"E", "v", "e", "n", "t", "o">>,
    <<"E_ACUTE", "v", "e", "n", "t", "o">>,
    <<"e_acute", "V", "E", "N", "T", "O">>,
    <<"e", "v", "e", "ACUTE", "n", "t", "o">>,
    <<"E", "V", "E", "N", "T", "O", "S">>,
    <<"P", "A", "R", "T", "I", "D", "A">>,
    <<"p", "a", "r", "t", "i", "d", "a">>,
    <<"M", "A", "T", "C", "H">>,
    <<"M", "a", "t", "c", "h", " ", "d", "a", "y">>,
    <<"O", "b", "s">>,
    <<"o", "b", "s">>,
    <<"O", " ", "b", " ", "s">>,
    <<"O", "b", "s", "e", "r", "v", "a", "a_tilde", "o">>,
    <<"N", "A_TILDE", "O">>,
    <<>>}

RECURSIVE SpaceRuns(_)
SpaceRuns(n) ==
    IF n = 0 THEN {<<>>}
    ELSE SpaceRuns(n - 1)
         \cup {<<c>> \o t : c \in {" ", "TAB", "NBSP"}, t \in {u \in SpaceRuns(n - 1) : Len(u) = n - 1}}

HeaderTexts == {a \o t \o b : a \in SpaceRuns(MaxPad), t \in HeaderCores, b \in SpaceRuns(MaxPad)}

ApiAtRest ==
    /\ registry = {}
    /\ lastId = 0
    /\ sheetRowsCache = EmptyCache
    /\ remoteVer = 0
    /\ req = EmptyBag
    /\ refreshes = 0
    /\ deletedOk = {}
    /\ lastRead = [hit |-> FALSE, start |-> 0, began |-> 0]

InitHeader ==
    /\ ApiAtRest
    /\ call \in {[fn |-> "canonicalHeaderName", raw |-> t] : t \in HeaderTexts}
    /\ step = 0
    /\ out = <<>>

\* header.map((c) => canonicalHeaderName(c)), one cell, the first time
CanonicalizeHeader ==
    /\ call.fn = "canonicalHeaderName"
    /\ step = 0
    /\ out' = <<canonicalHeaderName(call.raw)>>
    /\ step' = 1
    /\ UNCHANGED <<call, apiVars>>

\* the same cell of the established header in a later tab
CanonicalizeAgain ==
    /\ call.fn = "canonicalHeaderName"
    /\ step = 1
    /\ out' = Append(out, canonicalHeaderName(out[1]))
    /\ step' = 2
    /\ UNCHANGED <<call, apiVars>>

NextHeader == CanonicalizeHeader \/ CanonicalizeAgain

SpecHeader == InitHeader /\ [][NextHeader]_vars

\* C10: canonicalHeaderName returns each of the seven canonical names
\* unchanged, and applying it to its own result returns that result.
C10_CanonicalHeaderIdempotent ==
    call.fn = "canonicalHeaderName" =>
        /\ (step >= 1 /\ call.raw \in CanonicalNames) => out[1] = call.raw
        /\ step = 2 => out[2] = out[1]

\* C10: a header text that is not canonical (it is padded, in lower case or
\* a synonym) was canonicalized to a canonical name, and that again
C10_Witness ==
    /\ call.fn = "canonicalHeaderName"
    /\ step = 2
    /\ call.raw \notin CanonicalNames
    /\ out[1] \in CanonicalNames

(***************************************************************************)
(* sheets.js: extractRowsFromValues.  A cell is a text, a spreadsheet row  *)
(* a sequence of cells, values a sequence of rows; a row object is a       *)
(* function from column names to cells.  null is the empty sequence and a  *)
(* header that is not null is the one-element sequence holding it.         *)
(***************************************************************************)
null == <<>>

\* obj[col] = v on an object made by {}, for a text v: the name __proto__ is
\* the accessor of Object.prototype, whose setter ignores a text, and the
\* object gets no property; any other name becomes a property of the object
SetProp(obj, col, v) ==
    IF col = <<"_", "_", "p", "r", "o", "t", "o", "_", "_">> THEN obj
    ELSE [k \in DOMAIN obj \cup {col} |-> IF k = col THEN v ELSE obj[k]]

\* row.some((cell) => norm(cell).includes("DATA APOSTA"))
IsHeaderRow(row) == \E i \in DOMAIN row : includes(norm(row[i]), DATA_APOSTA)

\* values.findIndex(...), counted from 1; 0 when no row is a header row
findHeaderIndex(values) ==
    IF \E i \in DOMAIN values : IsHeaderRow(values[i])
    THEN CHOOSE i \in DOMAIN values :
            IsHeaderRow(values[i]) /\ \A j \in 1..(i - 1) : ~IsHeaderRow(values[j])
    ELSE 0

\* row.some((cell) => String(cell).trim() !== "")
NotBlank(row) == \E i \in DOMAIN row : trim(row[i]) # <<>>

\* header.forEach((col, idx) => { if (!col) return; obj[col] = row[idx] ?? ""; })
RECURSIVE forEachCol(_, _, _, _)
forEachCol(header, row, idx, obj) ==
    IF idx > Len(header) THEN obj
    ELSE IF header[idx] = <<>> THEN forEachCol(header, row, idx + 1, obj)
    ELSE forEachCol(header, row, idx + 1,
                    SetProp(obj, header[idx], IF idx <= Len(row) THEN row[idx] ELSE <<>>))

\* mainHeader || headerRow
headerRawOf(mainHeader, headerRow) == IF mainHeader # null THEN mainHeader[1] ELSE headerRow

extractRowsFromValues(values, mainHeader) ==
    IF values = <<>> THEN [header |-> mainHeader, rows |-> <<>>]
    ELSE LET headerIndex == findHeaderIndex(values)
         IN IF headerIndex = 0 THEN [header |-> mainHeader, rows |-> <<>>]
            ELSE LET headerRaw == headerRawOf(mainHeader, values[headerIndex])
                     header    == [i \in DOMAIN headerRaw |-> canonicalHeaderName(headerRaw[i])]
                     dataRows  == SelectSeq(SubSeq(values, headerIndex + 1, Len(values)), NotBlank)
                 IN [header |-> <<header>>,
                     rows   |-> [i \in DOMAIN dataRows |->
                                    forEachCol(header, dataRows[i], 1, [k \in {} |-> <<>>])]]

(***************************************************************************)
(* sheets.js: getSheetRows.  The spreadsheet is what the Google API        *)
(* answers: whether the request for the tab list fails, and for each tab   *)
(* whether it has a title, whether the request for its values fails, and   *)
(* its values.  call.range is "tab" for a range naming a tab ("!") and     *)
(* "all" otherwise; step is the position of the loop over the tabs.        *)
(***************************************************************************)
\* tabs of a spreadsheet
MaxTabs == 3

TabValues == {
    <<>>,
    << <<<<"D", "a", "t", "a", " ", "A", "p", "o", "s", "t", "a">>, <<"L", "u", "c", "r", "o">>, <<"C", "a", "s", "a">>>>,
       <<<<"0", "1", "/", "1", "1", "/", "2", "0", "2", "5">>, <<"1", "0">>, <<"B", "e", "t">>>> >>,
    << <<<<"C", "A", "S", "A">>, <<"D", "A", "T", "A", " ", "A", "P", "O", "S", "T", "A">>, <<"L", "U", "C", "R", "O">>>>,
       <<<<"P", "i", "n">>, <<"0", "2", "/", "1", "1", "/", "2", "0", "2", "5">>, <<"5">>>>,
       <<<<" ">>, <<>>, <<"TAB">>>>,
       <<<<"B", "e", "t">>>> >>,
    << <<<<"T", "o", "t", "a", "l">>, <<"7">>>>,
       <<<<"1">>, <<"2">>>> >>,
    << <<<<"N", "o", "v", "e", "m", "b", "r", "o">>>>,
       <<<<"d", "a", "t", "a", " ", " ", "a", "p", "o", "s", "t", "a">>, <<>>, <<"O", "b", "s">>, <<"O", "b", "s">>>>,
       <<<<"0", "3", "/", "1", "1", "/", "2", "0", "2", "5">>, <<"x">>, <<"a">>, <<"b">>, <<"c">>>> >>,
    << <<<<"B", "o", "o", "k", "m", "a", "k", "e", "r">>, <<"D", "A", "T", "A", " ", "D", "A", " ", "A", "P", "O", "S", "T", "A">>>>,
       <<<<"B", "e", "t">>, <<"0", "4", "/", "1", "1", "/", "2", "0", "2", "5">>>> >>,
    << <<<<"D", "a", "t", "a", " ", "A", "p", "o", "s", "t", "a">>, <<"_", "_", "p", "r", "o", "t", "o", "_", "_">>, <<"C", "a", "s", "a">>>>,
       <<<<"0", "5", "/", "1", "1", "/", "2", "0", "2", "5">>, <<"x">>, <<"P", "i", "n">>>> >>
}

\* a tab whose values hold a header row and data rows
FullTab == CHOOSE v \in TabValues : Len(v) = 4

\* the tabs that answer with their values, a tab whose request fails, and a
\* tab without a title
Tabs == [title : {TRUE}, fails : {FALSE}, values : TabValues]
        \cup {[title |-> TRUE, fails |-> TRUE, values |-> FullTab],
              [title |-> FALSE, fails |-> FALSE, values |-> FullTab]}

RECURSIVE SeqsUpTo(_, _)
SeqsUpTo(S, n) ==
    IF n = 0 THEN {<<>>}
    ELSE SeqsUpTo(S, n - 1)
         \cup {Append(s, x) : s \in {u \in SeqsUpTo(S, n - 1) : Len(u) = n - 1}, x \in S}

InitSheets ==
    /\ ApiAtRest
    /\ call \in [fn : {"getSheetRows"}, range : {"all"}, metaFails : BOOLEAN,
                 tabs : SeqsUpTo(Tabs, MaxTabs)]
            \cup [fn : {"getSheetRows"}, range : {"tab"}, metaFails : {FALSE},
                  tabs : {<<t>> : t \in {u \in Tabs : u.title}}]
    /\ step = 0
    /\ out = [pc |-> "start", mainHeader |-> null, allRows |-> <<>>]

\* range.includes("!"): one request, for the values of the named tab
GetTab ==
    /\ call.fn = "getSheetRows" /\ call.range = "tab" /\ out.pc = "start"
    /\ LET tab == call.tabs[1]
       IN out' = IF tab.fails THEN [out EXCEPT !.pc = "threw"]
                 ELSE [out EXCEPT !.pc = "returned",
                                  !.allRows = extractRowsFromValues(tab.values, null).rows]
    /\ UNCHANGED <<call, step, apiVars>>

\* sheets.spreadsheets.get: the list of tabs; a failure goes to the outer catch
GetMeta ==
    /\ call.fn = "getSheetRows" /\ call.range = "all" /\ out.pc = "start"
    /\ out' = [out EXCEPT !.pc = IF call.metaFails THEN "threw" ELSE "loop"]
    /\ step' = 1
    /\ UNCHANGED <<call, apiVars>>

\* a failing tab ends the whole read
RethrowTab(o) == [o EXCEPT !.pc = "threw"]

\* catch (err) { console.warn(...) }
CatchTab(o) == o

\* one pass of: for (const sh of sheetProps)
ReadTab ==
    /\ call.fn = "getSheetRows" /\ out.pc = "loop" /\ step <= Len(call.tabs)
    /\ LET tab == call.tabs[step]
           ext == extractRowsFromValues(tab.values, out.mainHeader)
       IN out' = IF ~tab.title THEN out
                 ELSE IF tab.fails THEN CatchTab(out)
                 ELSE IF tab.values = <<>> THEN out
                 ELSE [out EXCEPT !.mainHeader = IF out.mainHeader = null /\ ext.header # null
                                                 THEN ext.header ELSE @,
                                  !.allRows = @ \o ext.rows]
    /\ step' = step + 1
    /\ UNCHANGED <<call, apiVars>>

\* return allRows
ReturnRows ==
    /\ call.fn = "getSheetRows" /\ out.pc = "loop" /\ step > Len(call.tabs)
    /\ out' = [out EXCEPT !.pc = "returned"]
    /\ UNCHANGED <<call, step, apiVars>>

NextSheets == GetTab \/ GetMeta \/ ReadTab \/ ReturnRows

SpecSheets == InitSheets /\ [][NextSheets]_vars

\* the tab at this position was read: it has a title and its request succeeded
ReadOk(tab) == tab.title /\ ~tab.fails

HasHeaderRow(values) == \E i \in DOMAIN values : IsHeaderRow(values[i])

\* the canonical names of the cells of the first header row
OwnHeader(values) ==
    LET row == values[findHeaderIndex(values)]
    IN [i \in DOMAIN row |-> canonicalHeaderName(row[i])]

\* the rows below the header row that are not blank
DataRowsOf(values) ==
    SelectSeq(SubSeq(values, findHeaderIndex(values) + 1, Len(values)), NotBlank)

\* a data row projected by position on a header: each named column holds the
\* cell at the last position carrying that name, or the empty text when the
\* row is shorter
ProjectOn(header, row) ==
    [col \in {header[i] : i \in DOMAIN header} \ {<<>>} |->
        LET last == CHOOSE i \in DOMAIN header :
                        header[i] = col /\ \A j \in DOMAIN header : header[j] = col => j <= i
        IN IF last <= Len(row) THEN row[last] ELSE <<>>]

ProjectedRows(header, values) ==
    [i \in DOMAIN DataRowsOf(values) |-> ProjectOn(header, DataRowsOf(values)[i])]

\* C5: in a read of all tabs, an established header never changes; the first
\* tab read with a header row establishes the canonical names of that row as
\* the header; every tab read with a header row appends its data rows
\* projected by position on the established header, whatever its own header
\* row says; a tab read without a header row changes neither header nor rows.
C5_HeaderFixedByFirstTab ==
    [][(call.fn = "getSheetRows" /\ out.pc = "loop" /\ step' = step + 1
        /\ ReadOk(call.tabs[step]))
       => LET values == call.tabs[step].values
          IN /\ out.mainHeader # null => out'.mainHeader = out.mainHeader
             /\ IF HasHeaderRow(values)
                THEN /\ out.mainHeader = null => out'.mainHeader = <<OwnHeader(values)>>
                     /\ out'.allRows = out.allRows \o ProjectedRows(out'.mainHeader[1], values)
                ELSE /\ out'.mainHeader = out.mainHeader
                     /\ out'.allRows = out.allRows]_vars

\* a row object as it is stored: a column named __proto__ is not a property
StoredRow(obj) == [k \in (DOMAIN obj) \ {<<"_", "_", "p", "r", "o", "t", "o", "_", "_">>} |-> obj[k]]

\* the rows of a sequence of tabs that were all read, in tab order
RECURSIVE RowsOfTabs(_, _)
RowsOfTabs(tabs, header) ==
    IF tabs = <<>> THEN <<>>
    ELSE LET values == Head(tabs).values
         IN IF HasHeaderRow(values)
            THEN LET h == IF header = null THEN OwnHeader(values) ELSE header[1]
                 IN [i \in DOMAIN ProjectedRows(h, values) |-> StoredRow(ProjectedRows(h, values)[i])]
                    \o RowsOfTabs(Tail(tabs), <<h>>)
            ELSE RowsOfTabs(Tail(tabs), header)

\* C6: a read of all tabs whose tab list was obtained never fails, whatever
\* tabs fail, and returns the rows of the tabs that were read, in tab order.
C6_FailingTabsAreSkipped ==
    (call.fn = "getSheetRows" /\ call.range = "all" /\ ~call.metaFails)
    => /\ out.pc # "threw"
       /\ out.pc = "returned" => out.allRows = RowsOfTabs(SelectSeq(call.tabs, ReadOk), null)

\* C6: a read returned rows of a tab before and of a tab after a failing tab
C6_Witness ==
    /\ call.fn = "getSheetRows" /\ call.range = "all" /\ out.pc = "returned"
    /\ \E i, j, k \in DOMAIN call.tabs :
          /\ i < j /\ j < k
          /\ call.tabs[j].title /\ call.tabs[j].fails
          /\ ReadOk(call.tabs[i]) /\ HasHeaderRow(call.tabs[i].values)
          /\ ReadOk(call.tabs[k]) /\ HasHeaderRow(call.tabs[k].values)
    /\ Len(out.allRows) >= 2

(***************************************************************************)
(* Numbers.  A JavaScript number is an IEEE-754 double: a sign, a          *)
(* significand of 53 binary digits and an exponent; its value is           *)
(* m * 2^e, negated when neg.  Zero has the empty significand.  A natural  *)
(* number of any size is the sequence of its digits in base 2^15, least    *)
(* significant first, without leading zeros.  The numbers met here are far *)
(* from the ends of the exponent range, which is not modelled.             *)
(***************************************************************************)
LimbBits == 15

Base == 2^LimbBits

\* binary digits of the significand of a double
Precision == 53

\* binary digits of a quotient before rounding
QuotientBits == Precision + 3

RECURSIVE StripHigh(_)
StripHigh(a) == IF a # <<>> /\ a[Len(a)] = 0 THEN StripHigh(SubSeq(a, 1, Len(a) - 1)) ELSE a

RECURSIVE Limbs(_)
Limbs(n) == IF n = 0 THEN <<>> ELSE <<n % Base>> \o Limbs(n \div Base)

\* a + b + c
RECURSIVE AddN(_, _, _)
AddN(a, b, c) ==
    IF a = <<>> /\ b = <<>> THEN (IF c = 0 THEN <<>> ELSE <<c>>)
    ELSE LET s == (IF a = <<>> THEN 0 ELSE Head(a)) + (IF b = <<>> THEN 0 ELSE Head(b)) + c
         IN <<s % Base>> \o AddN(IF a = <<>> THEN a ELSE Tail(a),
                                 IF b = <<>> THEN b ELSE Tail(b), s \div Base)

\* a - b - c, for a >= b + c; leading zeros are left in
RECURSIVE SubN(_, _, _)
SubN(a, b, c) ==
    IF a = <<>> THEN <<>>
    ELSE LET s == Head(a) - (IF b = <<>> THEN 0 ELSE Head(b)) - c
         IN <<s % Base>> \o SubN(Tail(a), IF b = <<>> THEN b ELSE Tail(b), IF s < 0 THEN 1 ELSE 0)

LessN(a, b) ==
    \/ Len(a) < Len(b)
    \/ /\ Len(a) = Len(b)
       /\ \E i \in DOMAIN a : a[i] < b[i] /\ \A j \in (i + 1)..Len(a) : a[j] = b[j]

\* a * n + c, for n < Base
RECURSIVE MulSmall(_, _, _)
MulSmall(a, n, c) ==
    IF a = <<>> THEN (IF c = 0 THEN <<>> ELSE <<c>>)
    ELSE LET p == Head(a) * n + c
         IN <<p % Base>> \o MulSmall(Tail(a), n, p \div Base)

\* a * b; leading zeros are left in
RECURSIVE MulN(_, _)
MulN(a, b) ==
    IF b = <<>> THEN <<>>
    ELSE AddN(MulSmall(a, Head(b), 0), <<0>> \o MulN(a, Tail(b)), 0)

\* quotient and remainder of (r * Base^Len(a) + a) by n, for r < n < Base
RECURSIVE DivSmall(_, _, _)
DivSmall(a, n, r) ==
    IF a = <<>> THEN [q |-> <<>>, r |-> r]
    ELSE LET cur  == r * Base + a[Len(a)]
             rest == DivSmall(SubSeq(a, 1, Len(a) - 1), n, cur % n)
         IN [q |-> Append(rest.q, cur \div n), r |-> rest.r]

\* the number of binary digits of a
BitLen(a) ==
    IF a = <<>> THEN 0
    ELSE LimbBits * (Len(a) - 1)
         + CHOOSE w \in 1..LimbBits : 2^(w - 1) <= a[Len(a)] /\ a[Len(a)] < 2^w

\* a * 2^n
Shl(a, n) ==
    IF a = <<>> THEN a
    ELSE [i \in 1..(n \div LimbBits) |-> 0] \o MulSmall(a, 2^(n % LimbBits), 0)

\* a divided by 2^n, and whether a nonzero remainder was dropped
Shr(a, n) ==
    LET k == n \div LimbBits
        Dropped(d) ==
            [q |-> StripHigh(d.q), sticky |-> d.r # 0 \/ \E i \in 1..k : i <= Len(a) /\ a[i] # 0]
    IN Dropped(DivSmall(SubSeq(a, k + 1, Len(a)), 2^(n % LimbBits), 0))

Zero == [neg |-> FALSE, m |-> <<>>, e |-> 0]

\* the double nearest to m * 2^e (plus a little, when sticky), ties to the
\* even significand
Round(neg, m, e, sticky) ==
    LET len == BitLen(m)
        Renorm(r) ==
            IF BitLen(r) > Precision
            THEN [neg |-> neg, m |-> StripHigh(DivSmall(r, 2, 0).q), e |-> e + len - Precision + 1]
            ELSE [neg |-> neg, m |-> r, e |-> e + len - Precision]
        Nearest(d, guard, rest) ==
            Renorm(IF guard /\ (rest \/ d[1] % 2 = 1) THEN AddN(d, <<1>>, 0) ELSE d)
        Halve(s) ==
            Nearest(StripHigh(DivSmall(s.q, 2, 0).q), s.q[1] % 2 = 1, s.sticky \/ sticky)
    IN IF len <= Precision
       THEN [neg |-> neg, m |-> Shl(m, Precision - len), e |-> e - (Precision - len)]
       ELSE Halve(Shr(m, len - Precision - 1))

\* the double of an integer
FromInt(n) ==
    IF n = 0 THEN Zero ELSE Round(n < 0, Limbs(IF n < 0 THEN -n ELSE n), 0, FALSE)

\* |a| < |b|
MagLess(a, b) ==
    IF b.m = <<>> THEN FALSE
    ELSE IF a.m = <<>> THEN TRUE
    ELSE a.e < b.e \/ (a.e = b.e /\ LessN(a.m, b.m))

\* a < b
FLess(a, b) ==
    IF a.neg # b.neg THEN a.neg /\ (a.m # <<>> \/ b.m # <<>>)
    ELSE IF a.neg THEN MagLess(b, a) ELSE MagLess(a, b)

\* -a
FNeg(a) == IF a.m = <<>> THEN a ELSE [a EXCEPT !.neg = ~a.neg]

\* a + b
FAdd(a, b) ==
    IF a.m = <<>> THEN b
    ELSE IF b.m = <<>> THEN a
    ELSE LET e == IF a.e < b.e THEN a.e ELSE b.e
             Sum(ma, mb) ==
                 IF a.neg = b.neg THEN [neg |-> a.neg, m |-> AddN(ma, mb, 0)]
                 ELSE IF LessN(ma, mb) THEN [neg |-> b.neg, m |-> StripHigh(SubN(mb, ma, 0))]
                 ELSE [neg |-> a.neg, m |-> StripHigh(SubN(ma, mb, 0))]
             Rounded(x) == IF x.m = <<>> THEN Zero ELSE Round(x.neg, x.m, e, FALSE)
         IN Rounded(Sum(Shl(a.m, a.e - e), Shl(b.m, b.e - e)))

\* a * b
FMul(a, b) ==
    IF a.m = <<>> \/ b.m = <<>> THEN Zero
    ELSE Round(a.neg # b.neg, StripHigh(MulN(a.m, b.m)), a.e + b.e, FALSE)

\* the largest digit at or below q whose product with d is at most rem
RECURSIVE FitDigit(_, _, _)
FitDigit(q, rem, d) ==
    IF LessN(rem, StripHigh(MulSmall(d, q, 0))) THEN FitDigit(q - 1, rem, d) ELSE q

\* the digits of (st.rem * Base^Len(n) + n) / d after the digits st.q, and
\* what is left of the dividend, for st.rem < d and a d whose highest digit
\* is at least Base / 2: a digit is at most the quotient of the two highest
\* digits of the dividend by the highest of d
RECURSIVE DivLimbs(_, _, _)
DivLimbs(st, n, d) ==
    IF n = <<>> THEN st
    ELSE LET rem == StripHigh(<<n[Len(n)]>> \o st.rem)
             top == (IF Len(rem) > Len(d) THEN rem[Len(d) + 1] * Base ELSE 0)
                    + (IF Len(rem) >= Len(d) THEN rem[Len(d)] ELSE 0)
             est == top \div d[Len(d)]
             Rest(q) ==
                 DivLimbs([rem |-> StripHigh(SubN(rem, MulSmall(d, q, 0), 0)), q |-> <<q>> \o st.q],
                          SubSeq(n, 1, Len(n) - 1), d)
         IN Rest(FitDigit(IF est < Base THEN est ELSE Base - 1, rem, d))

\* a / b, for b # 0
FDiv(a, b) ==
    LET s == LimbBits * Len(b.m) - BitLen(b.m)
        Quotient(d) ==
            Round(a.neg # b.neg, StripHigh(d.q), a.e - b.e - (QuotientBits - 1), d.rem # <<>>)
    IN IF a.m = <<>> THEN Zero
       ELSE Quotient(DivLimbs([rem |-> <<>>, q |-> <<>>], Shl(a.m, QuotientBits - 1 + s), Shl(b.m, s)))

(***************************************************************************)
(* index.js: parseNumber and parseDateISO.  A column that a row object     *)
(* lacks reads as undefined; undefined and the empty text are treated      *)
(* alike by every reader of a column (v == null, !v, || ""), so an absent  *)
(* column reads here as the empty text.                                    *)
(***************************************************************************)
Field(r, col) == IF col \in DOMAIN r THEN r[col] ELSE <<>>

Digits == <<"0", "1", "2", "3", "4", "5", "6", "7", "8", "9">>

IsDigit(c) == \E i \in DOMAIN Digits : Digits[i] = c

AllDigits(t) == \A i \in DOMAIN t : IsDigit(t[i])

\* the number written by a text of fewer than ten decimal digits
RECURSIVE DigitsValue(_)
DigitsValue(t) ==
    IF t = <<>> THEN 0
    ELSE 10 * DigitsValue(SubSeq(t, 1, Len(t) - 1))
         + (CHOOSE i \in DOMAIN Digits : Digits[i] = t[Len(t)]) - 1

\* .replace(/R\$/gi, "")
RECURSIVE StripCurrency(_)
StripCurrency(t) ==
    IF t = <<>> THEN <<>>
    ELSE IF Len(t) >= 2 /\ t[1] \in {"R", "r"} /\ t[2] = "$" THEN StripCurrency(SubSeq(t, 3, Len(t)))
    ELSE <<Head(t)>> \o StripCurrency(Tail(t))

NotSpace(c) == ~IsSpace(c)

NotDot(c) == c # "."

\* .replace(",", "."): the first comma only
ReplaceFirstComma(t) ==
    IF \E i \in DOMAIN t : t[i] = ","
    THEN [t EXCEPT ![CHOOSE i \in DOMAIN t : t[i] = "," /\ \A j \in 1..(i - 1) : t[j] # ","] = "."]
    ELSE t

\* Number(s) for a text without whitespace: an optional sign, decimal digits
\* and at most one point; the empty text is 0; anything else is NaN.  (Texts
\* with an exponent, a radix prefix or Infinity are not among the inputs;
\* -0 is not told from 0.)
Number(s) ==
    LET signed == s # <<>> /\ s[1] \in {"+", "-"}
        body   == IF signed THEN Tail(s) ELSE s
        point  == IF \E i \in DOMAIN body : body[i] = "."
                  THEN CHOOSE i \in DOMAIN body : body[i] = "." ELSE Len(body) + 1
        int    == SubSeq(body, 1, point - 1)
        frac   == SubSeq(body, point + 1, Len(body))
        Signed(abs) == IF signed /\ s[1] = "-" THEN FNeg(abs) ELSE abs
    IN IF s = <<>> THEN [nan |-> FALSE, n |-> Zero]
       ELSE IF AllDigits(int) /\ AllDigits(frac) /\ int \o frac # <<>>
       THEN [nan |-> FALSE,
             n   |-> Signed(IF frac = <<>> THEN FromInt(DigitsValue(int))
                            ELSE FDiv(FromInt(DigitsValue(int \o frac)), FromInt(10^Len(frac))))]
       ELSE [nan |-> TRUE, n |-> Zero]

parseNumber(v) ==
    LET OrZero(n) == IF n.nan THEN Zero ELSE n.n
    IN OrZero(Number(ReplaceFirstComma(SelectSeq(SelectSeq(StripCurrency(v), NotSpace), NotDot))))

\* s.split(" ")[0]
RECURSIVE FirstWord(_)
FirstWord(t) == IF t = <<>> \/ Head(t) = " " THEN <<>> ELSE <<Head(t)>> \o FirstWord(Tail(t))

\* the result null is the empty text: a date is never empty
parseDateISO(v) ==
    IF v = <<>> THEN null
    ELSE LET datePart == FirstWord(trim(v))
         IN IF /\ Len(datePart) = 10
               /\ datePart[3] = "/" /\ datePart[6] = "/"
               /\ AllDigits(SubSeq(datePart, 1, 2))
               /\ AllDigits(SubSeq(datePart, 4, 5))
               /\ AllDigits(SubSeq(datePart, 7, 10))
            THEN SubSeq(datePart, 7, 10) \o <<"-">> \o SubSeq(datePart, 4, 5)
                 \o <<"-">> \o SubSeq(datePart, 1, 2)
            ELSE null

(***************************************************************************)
(* Texts as JavaScript compares and lowers them                            *)
(***************************************************************************)
\* the characters in the order of their UTF-16 code units
CodeOrder ==
    <<"TAB", "LF", " ", "$", "(", ")", "+", ",", "-", ".", "/">> \o Digits \o <<":">>
    \o Uppers \o <<"_">> \o Lowers \o <<"|">>
    \o <<"NBSP", "A_TILDE", "E_ACUTE", "a_tilde", "e_acute", "ACUTE", "TILDE">>

Code(c) == CHOOSE i \in DOMAIN CodeOrder : CodeOrder[i] = c

\* a < b for strings
RECURSIVE TextLess(_, _)
TextLess(a, b) ==
    IF b = <<>> THEN FALSE
    ELSE IF a = <<>> THEN TRUE
    ELSE IF Head(a) # Head(b) THEN Code(Head(a)) < Code(Head(b))
    ELSE TextLess(Tail(a), Tail(b))

\* String.prototype.toLowerCase, one character
toLowerCase(c) ==
    IF \E i \in DOMAIN Uppers : Uppers[i] = c
    THEN Lowers[CHOOSE i \in DOMAIN Uppers : Uppers[i] = c]
    ELSE CASE c = "E_ACUTE" -> "e_acute"
           [] c = "A_TILDE" -> "a_tilde"
           [] OTHER -> c

(***************************************************************************)
(* index.js: the records and entries of the overview handlers.  A sheet    *)
(* is its display name and the rows getCachedSheetRows returns for it; q   *)
(* holds the query parameters, the empty text for one that is absent.      *)
(***************************************************************************)
SEM_OPERADOR == <<"S", "E", "M", " ", "O", "P", "E", "R", "A", "D", "O", "R">>

\* (sheet.name || "SEM OPERADOR").trim()
opName(sheet) == trim(IF sheet.name = <<>> THEN SEM_OPERADOR ELSE sheet.name)

\* rows without a date are kept
UndatedNever(iso) == FALSE

\* !dataApostaISO
Undated(iso) == iso = null

\* neither (from && dataApostaISO < from) nor (to && dataApostaISO > to)
InRange(iso, q) ==
    /\ ~(q.from # <<>> /\ TextLess(iso, q.from))
    /\ ~(q.to # <<>> /\ TextLess(q.to, iso))

recordOf(r, op, iso) ==
    [dataAposta |-> iso,
     operador   |-> op,
     casa       |-> Field(r, CASA),
     esporte    |-> Field(r, ESPORTE),
     evento     |-> trim(Field(r, EVENTO)),
     dataEvento |-> trim(Field(r, DATA_EVENTO)),
     stake      |-> parseNumber(Field(r, STAKE)),
     lucro      |-> parseNumber(Field(r, LUCRO))]

\* `${d.dataAposta || ""}|${(d.evento || "").toLowerCase().trim()}|${d.operador}`
keyOf(d) ==
    d.dataAposta \o <<"|">> \o trim([i \in DOMAIN d.evento |-> toLowerCase(d.evento[i])])
    \o <<"|">> \o d.operador

\* gruposMap after one record: a Map keeps its keys in insertion order
addToGroups(gruposMap, d) ==
    LET key == keyOf(d)
        new == IF \E i \in DOMAIN gruposMap : gruposMap[i].key = key THEN gruposMap
               ELSE Append(gruposMap,
                           [key |-> key,
                            g   |-> [dataAposta |-> d.dataAposta, operador |-> d.operador,
                                     evento |-> d.evento, esporte |-> d.esporte,
                                     lucroTotal |-> Zero, stakeTotal |-> Zero]])
        at  == CHOOSE i \in DOMAIN new : new[i].key = key
    IN [new EXCEPT ![at].g.lucroTotal = FAdd(@, d.lucro),
                   ![at].g.stakeTotal = FAdd(@, d.stake)]

\* Array.from(gruposMap.values())
valuesOf(gruposMap) == [i \in DOMAIN gruposMap |-> gruposMap[i].g]

\* overview: for (const r of rows) { ... data.push(...) }
RECURSIVE overviewData(_, _, _, _)
overviewData(sheet, rows, q, data) ==
    IF rows = <<>> THEN data
    ELSE LET r   == Head(rows)
             iso == parseDateISO(Field(r, DATA_APOSTA))
             op  == opName(sheet)
         IN IF Undated(iso) THEN overviewData(sheet, Tail(rows), q, data)
            ELSE IF q.operador # <<>> /\ op # q.operador
            THEN overviewData(sheet, Tail(rows), q, data)
            ELSE IF ~InRange(iso, q) THEN overviewData(sheet, Tail(rows), q, data)
            ELSE overviewData(sheet, Tail(rows), q, Append(data, recordOf(r, op, iso)))

\* overview: for (const d of data) { ... }
RECURSIVE groupData(_, _)
groupData(data, gruposMap) ==
    IF data = <<>> THEN gruposMap
    ELSE groupData(Tail(data), addToGroups(gruposMap, Head(data)))

\* overview-all: for (const r of rows) { ... data.push(d); ... }
RECURSIVE allRowsLoop(_, _, _, _)
allRowsLoop(rows, op, q, acc) ==
    IF rows = <<>> THEN acc
    ELSE LET r   == Head(rows)
             iso == parseDateISO(Field(r, DATA_APOSTA))
             d   == recordOf(r, op, iso)
         IN IF Undated(iso) THEN allRowsLoop(Tail(rows), op, q, acc)
            ELSE IF ~InRange(iso, q) THEN allRowsLoop(Tail(rows), op, q, acc)
            ELSE allRowsLoop(Tail(rows), op, q,
                             [data |-> Append(acc.data, d),
                              gruposMap |-> addToGroups(acc.gruposMap, d)])

\* a loop over the sheets that compares operador with the name as stored
RECURSIVE allSheetsLoopStoredName(_, _, _)
allSheetsLoopStoredName(sheets, q, acc) ==
    IF sheets = <<>> THEN acc
    ELSE LET sheet == Head(sheets)
         IN IF q.operador # <<>> /\ sheet.name # q.operador
            THEN allSheetsLoopStoredName(Tail(sheets), q, acc)
            ELSE allSheetsLoopStoredName(Tail(sheets), q, allRowsLoop(sheet.rows, opName(sheet), q, acc))

\* overview-all: for (const sheet of sheets) { ... }
RECURSIVE allSheetsLoop(_, _, _)
allSheetsLoop(sheets, q, acc) ==
    IF sheets = <<>> THEN acc
    ELSE LET sheet == Head(sheets)
         IN IF q.operador # <<>> /\ opName(sheet) # q.operador
            THEN allSheetsLoop(Tail(sheets), q, acc)
            ELSE allSheetsLoop(Tail(sheets), q, allRowsLoop(sheet.rows, opName(sheet), q, acc))

(***************************************************************************)
(* index.js: buildStatsFromData.  The keys of the breakdowns are never     *)
(* array indices nor names of Object.prototype, so that an object keeps    *)
(* them in insertion order and holds nothing under a key before its first  *)
(* item.                                                                   *)
(***************************************************************************)
\* const EPS = 1e-6
EPS == FDiv(FromInt(1), FromInt(10^6))

\* xs.reduce((sum, x) => sum + x, sum)
RECURSIVE SumOf(_, _)
SumOf(xs, sum) == IF xs = <<>> THEN sum ELSE SumOf(Tail(xs), FAdd(sum, Head(xs)))

\* whole > 0 ? (part / whole) * 100 : 0
Percent(part, whole) ==
    IF FLess(Zero, whole) THEN FMul(FDiv(part, whole), FromInt(100)) ELSE Zero

IsGreen(g) == FLess(EPS, g.lucroTotal)

IsRed(g) == FLess(g.lucroTotal, FNeg(EPS))

\* a breakdown loop over items [key, lucro, stake]: a bucket is created at the
\* first item of its key and every item is added to the bucket of its key
RECURSIVE bucketsOf(_, _)
bucketsOf(items, map) ==
    IF items = <<>> THEN map
    ELSE LET it  == Head(items)
             new == IF \E i \in DOMAIN map : map[i].key = it.key THEN map
                    ELSE Append(map, [key |-> it.key, entradas |-> 0,
                                      lucro |-> Zero, stake_total |-> Zero])
             at  == CHOOSE i \in DOMAIN new : new[i].key = it.key
         IN bucketsOf(Tail(items),
                      [new EXCEPT ![at].entradas = @ + 1,
                                  ![at].lucro = FAdd(@, it.lucro),
                                  ![at].stake_total = FAdd(@, it.stake)])

\* .sort((a, b) => (a.date < b.date ? -1 : 1)) of buckets, whose keys differ
RECURSIVE sortByDate(_)
sortByDate(list) ==
    IF list = <<>> THEN <<>>
    ELSE LET first == CHOOSE i \in DOMAIN list :
                          \A j \in DOMAIN list : j # i => TextLess(list[i].key, list[j].key)
         IN <<list[first]>>
            \o sortByDate([i \in 1..(Len(list) - 1) |-> list[IF i < first THEN i ELSE i + 1]])

HasDate(d) == d.dataAposta # <<>>

HasCasa(d) == d.casa # <<>>

HasEsporte(d) == d.esporte # <<>>

buildStatsFromData(data, grupos) ==
    LET totalStake == SumOf([i \in DOMAIN data |-> data[i].stake], Zero)
        totalLucro == SumOf([i \in DOMAIN data |-> data[i].lucro], Zero)
        greens     == Cardinality({i \in DOMAIN grupos : IsGreen(grupos[i])})
        reds       == Cardinality({i \in DOMAIN grupos : IsRed(grupos[i])})
        total      == FromInt(greens + reds)
        dated      == SelectSeq(data, HasDate)
        withCasa   == SelectSeq(data, HasCasa)
        withSport  == SelectSeq(data, HasEsporte)
        porDia     == sortByDate(bucketsOf([i \in DOMAIN dated |->
                          [key |-> dated[i].dataAposta, lucro |-> dated[i].lucro,
                           stake |-> Zero]], <<>>))
        operadores == bucketsOf([i \in DOMAIN grupos |->
                          [key |-> grupos[i].operador, lucro |-> grupos[i].lucroTotal,
                           stake |-> grupos[i].stakeTotal]], <<>>)
        casas      == bucketsOf([i \in DOMAIN withCasa |->
                          [key |-> withCasa[i].casa, lucro |-> withCasa[i].lucro,
                           stake |-> withCasa[i].stake]], <<>>)
        esportes   == bucketsOf([i \in DOMAIN withSport |->
                          [key |-> withSport[i].esporte, lucro |-> withSport[i].lucro,
                           stake |-> withSport[i].stake]], <<>>)
    IN [overview |->
            [totalLucro |-> totalLucro, totalStake |-> totalStake,
             totalApostas |-> Len(grupos),
             yieldPercent |-> Percent(totalLucro, totalStake),
             greenPercent |-> Percent(FromInt(greens), total),
             redPercent |-> Percent(FromInt(reds), total)],
        lucroPorDia |-> [i \in DOMAIN porDia |-> [date |-> porDia[i].key, lucro |-> porDia[i].lucro]],
        porOperador |-> [i \in DOMAIN operadores |->
            [operador |-> operadores[i].key, entradas |-> operadores[i].entradas,
             lucro |-> operadores[i].lucro, stake_total |-> operadores[i].stake_total,
             yield_percent |-> Percent(operadores[i].lucro, operadores[i].stake_total)]],
        porCasa |-> [i \in DOMAIN casas |->
            [casa |-> casas[i].key, entradas |-> casas[i].entradas,
             lucro |-> casas[i].lucro, stake_total |-> casas[i].stake_total,
             yield_percent |-> Percent(casas[i].lucro, casas[i].stake_total)]],
        porEsporte |-> [i \in DOMAIN esportes |->
            [esporte |-> esportes[i].key, entradas |-> esportes[i].entradas,
             lucro |-> esportes[i].lucro, stake_total |-> esportes[i].stake_total,
             yield_percent |-> Percent(esportes[i].lucro, esportes[i].stake_total)]]]

\* overview: the records and the entries built from the rows of the sheet
overviewRecords(c) ==
    LET data == overviewData(c.sheets[1], c.sheets[1].rows, c.q, <<>>)
    IN [data |-> data, grupos |-> valuesOf(groupData(data, <<>>))]

\* overview-all: the records and the entries built from the rows of the sheets
overviewAllRecords(c) ==
    LET acc == allSheetsLoop(c.sheets, c.q, [data |-> <<>>, gruposMap |-> <<>>])
    IN [data |-> acc.data, grupos |-> valuesOf(acc.gruposMap)]

\* res.json(buildStatsFromData(data, grupos))
respond(rec) ==
    [status |-> 200, data |-> rec.data, grupos |-> rec.grupos,
     result |-> <<buildStatsFromData(rec.data, rec.grupos)>>]

\* what the overview handler answers once it has the sheet and its rows
overviewResponse(c) == respond(overviewRecords(c))

\* what the overview-all handler answers once it has the sheets
overviewAllResponse(c) ==
    IF c.sheets = <<>> THEN [status |-> 400, data |-> <<>>, grupos |-> <<>>, result |-> <<>>]
    ELSE respond(overviewAllRecords(c))

(***************************************************************************)
(* Calls of the overview handlers on given sheets, rows and parameters     *)
(***************************************************************************)
\* rows of the sheet of an overview call
MaxRows == 2

\* sheets of an overview-all call
MaxAllSheets == 2

\* three rows with a date, the first two of one entry; a row whose DATA
\* APOSTA cell is empty; a row without that column; a row whose DATA APOSTA
\* cell is a date of another form
RowList ==
    <<(DATA_APOSTA :> <<"0", "1", "/", "1", "1", "/", "2", "0", "2", "5">> @@ LUCRO :> <<"1", "0">> @@ STAKE :> <<"1", "0", "0">>
       @@ CASA :> <<"B", "e", "t">> @@ ESPORTE :> <<"F", "u", "t", "e", "b", "o", "l">> @@ EVENTO :> <<"A", " ", "x", " ", "B">>),
      (DATA_APOSTA :> <<"0", "1", "/", "1", "1", "/", "2", "0", "2", "5", " ", "2", "2", ":", "2", "9", ":", "5", "4">> @@ LUCRO :> <<"-", "5", ",", "5">> @@ STAKE :> <<"R", "$", " ", "1", ".", "0", "8", "0", ",", "0", "0">>
       @@ CASA :> <<"P", "i", "n">> @@ ESPORTE :> <<>> @@ EVENTO :> <<" ", "a", " ", "X", " ", "b", " ">>),
      (DATA_APOSTA :> <<" ", "0", "3", "/", "1", "1", "/", "2", "0", "2", "5">> @@ LUCRO :> <<"0", ",", "1">> @@ STAKE :> <<"5", "0">>
       @@ CASA :> <<>> @@ ESPORTE :> <<"T", "e", "n", "i", "s">> @@ EVENTO :> <<"C", " ", "x", " ", "D">>),
      (DATA_APOSTA :> <<>> @@ LUCRO :> <<"7">> @@ STAKE :> <<"7", "0">>
       @@ CASA :> <<"B", "e", "t">> @@ ESPORTE :> <<"F", "u", "t", "e", "b", "o", "l">> @@ EVENTO :> <<"A", " ", "x", " ", "B">>),
      (LUCRO :> <<"3">> @@ STAKE :> <<"3", "0">> @@ CASA :> <<"P", "i", "n">>),
      (DATA_APOSTA :> <<"2", "0", "2", "5", "-", "1", "1", "-", "0", "1">> @@ LUCRO :> <<"9">> @@ STAKE :> <<"9", "0">>
       @@ CASA :> <<"B", "e", "t">> @@ EVENTO :> <<"A", " ", "x", " ", "B">>)>>

SheetRows == {RowList[i] : i \in DOMAIN RowList}

SheetNames == {<<"A", "n", "a">>, <<" ", "A", "n", "a", " ">>, <<"B", "i", "a">>}

Queries ==
    {q \in [operador : {<<>>, <<"A", "n", "a">>, <<" ", "A", "n", "a", " ">>, <<"a", "n", "a">>},
            from     : {<<>>, <<"2", "0", "2", "5", "-", "1", "1", "-", "0", "2">>},
            to       : {<<>>, <<"2", "0", "2", "5", "-", "1", "1", "-", "0", "2">>}] : q.from = <<>> \/ q.to = <<>>}

\* the sheets of the overview-all calls
AllSheets ==
    [name : {<<" ", "A", "n", "a", " ">>, <<"B", "i", "a">>},
     rows : {<<>>, <<RowList[1]>>, <<RowList[6], RowList[2]>>, <<RowList[3], RowList[5]>>}]

\* getCachedSheetRows(sheet) for the sheets of ids, in ascending order, each
\* found in the cache: the rows are returned at once, nothing is fetched or
\* set and the handler does not wait, so that no other request runs before
\* its answer; the history keeps the last read.  (The read of a sheet that
\* is not in the cache waits for the spreadsheet: OverviewCache and
\* OverviewFetchDone, OverviewAllLoop and OverviewAllFetchDone.)
getCachedSheetRows(ids) ==
    /\ \A k \in ids : CacheHas(sheetRowsCache, k)
    /\ lastRead' = IF ids = {} THEN lastRead
                   ELSE LET last == CHOOSE k \in ids : \A j \in ids : j <= k
                        IN Read(NewReq("ov_cache", last, refreshes), sheetRowsCache[last], TRUE)
    /\ UNCHANGED <<registry, lastId, sheetRowsCache, remoteVer, req, refreshes, deletedOk>>

\* the sheets of the call are the registered ones, with ids in their order,
\* and the cache holds the rows of each
InitOverview ==
    /\ call \in [fn : {"overview"}, q : Queries,
                 sheets : {<<s>> : s \in [name : SheetNames, rows : SeqsUpTo(SheetRows, MaxRows)]}]
            \cup [fn : {"overview-all"}, q : Queries, sheets : SeqsUpTo(AllSheets, MaxAllSheets)]
    /\ lastId = Len(call.sheets)
    /\ registry = DOMAIN call.sheets
    /\ remoteVer = 0
    /\ sheetRowsCache = [k \in DOMAIN call.sheets |-> FetchedRows(0)]
    /\ req = EmptyBag
    /\ refreshes = 0
    /\ deletedOk = {}
    /\ lastRead = [hit |-> FALSE, start |-> 0, began |-> 0]
    /\ step = 0
    /\ out = <<>>

\* GET /api/dashboard/overview, from the sheet found to the response, the
\* rows read from the cache
OverviewRespond ==
    /\ call.fn = "overview"
    /\ step = 0
    /\ out' = overviewResponse(call)
    /\ step' = 1
    /\ getCachedSheetRows({1})
    /\ UNCHANGED call

\* GET /api/dashboard/overview-all, from the sheets listed to the response,
\* the rows read from the cache
OverviewAllRespond ==
    /\ call.fn = "overview-all"
    /\ step = 0
    /\ out' = overviewAllResponse(call)
    /\ step' = 1
    /\ getCachedSheetRows({i \in DOMAIN call.sheets :
                              call.q.operador = <<>> \/ opName(call.sheets[i]) = call.q.operador})
    /\ UNCHANGED call

NextOverview == OverviewRespond \/ OverviewAllRespond

SpecOverview == InitOverview /\ [][NextOverview]_vars

\* two digits/two digits/four digits
IsDayMonthYear(t) ==
    /\ Len(t) = 10
    /\ \A i \in 1..10 : IF i \in {3, 6} THEN t[i] = "/" ELSE IsDigit(t[i])

\* YYYY-MM-DD
IsYearMonthDay(t) ==
    /\ Len(t) = 10
    /\ \A i \in 1..10 : IF i \in {5, 8} THEN t[i] = "-" ELSE IsDigit(t[i])

\* the row has a DATA APOSTA cell that starts, blanks aside, with a date
DatedRow(r) == DATA_APOSTA \in DOMAIN r /\ IsDayMonthYear(FirstWord(trim(r[DATA_APOSTA])))

\* the call on the same sheets without their undated rows
WithoutUndated(c) ==
    [c EXCEPT !.sheets = [i \in DOMAIN @ |-> [@[i] EXCEPT !.rows = SelectSeq(@, DatedRow)]]]

\* C4: every record and every entry of an overview or overview-all response
\* has a dataAposta of the form YYYY-MM-DD, and the records and the entries,
\* of which the statistics are a function, are those of the same call without
\* the rows whose DATA APOSTA cell is absent, empty or not a date, whatever
\* the parameters.
C4_UndatedRowsContributeNothing ==
    (call.fn \in {"overview", "overview-all"} /\ step = 1)
    => /\ \A i \in DOMAIN out.data : IsYearMonthDay(out.data[i].dataAposta)
       /\ \A i \in DOMAIN out.grupos : IsYearMonthDay(out.grupos[i].dataAposta)
       /\ [data |-> out.data, grupos |-> out.grupos]
          = IF call.fn = "overview" THEN overviewRecords(WithoutUndated(call))
            ELSE overviewAllRecords(WithoutUndated(call))

\* C4: a response was built from rows of which some have a date and some
\* do not, and it holds records
C4_Witness ==
    /\ call.fn \in {"overview", "overview-all"} /\ step = 1
    /\ \E i \in DOMAIN call.sheets :
          /\ \E j \in DOMAIN call.sheets[i].rows : ~DatedRow(call.sheets[i].rows[j])
          /\ \E j \in DOMAIN call.sheets[i].rows : DatedRow(call.sheets[i].rows[j])
    /\ out.data # <<>>

\* C7: an overview response holds every dated row of the sheet in the date
\* range when the operador parameter is absent, empty or equal to the stored
\* display name of the sheet, and no record otherwise.
C7_OperadorMatchesStoredName ==
    (call.fn = "overview" /\ step = 1)
    => LET sheet == call.sheets[1]
           Eligible(r) == DatedRow(r) /\ InRange(parseDateISO(r[DATA_APOSTA]), call.q)
           kept == call.q.operador = <<>> \/ call.q.operador = sheet.name
       IN Len(out.data) = IF kept THEN Len(SelectSeq(sheet.rows, Eligible)) ELSE 0

(***************************************************************************)
(* Calls of buildStatsFromData on the records of one sheet and day, as the *)
(* overview handler builds them from rows, and on their entries            *)
(***************************************************************************)
\* records passed to buildStatsFromData
MaxRecords == 3

StatRows ==
    {(EVENTO :> <<"A">> @@ CASA :> <<"B", "e", "t">> @@ LUCRO :> <<"0", ",", "1">> @@ STAKE :> <<"1", "0">>),
     (EVENTO :> <<"B">> @@ CASA :> <<"P", "i", "n">> @@ LUCRO :> <<"0", ",", "2">> @@ STAKE :> <<"1", "0">>),
     (EVENTO :> <<"C">> @@ CASA :> <<"P", "i", "n">> @@ LUCRO :> <<"0", ",", "3">> @@ STAKE :> <<"1", "0">>),
     (EVENTO :> <<"D">> @@ CASA :> <<>> @@ LUCRO :> <<"1">> @@ STAKE :> <<"1", "0">>),
     (EVENTO :> <<"E">> @@ CASA :> <<"B", "e", "t">> @@ LUCRO :> <<"-", "1">> @@ STAKE :> <<"1", "0">>),
     (EVENTO :> <<"F">> @@ CASA :> <<"P", "i", "n">> @@ LUCRO :> <<"-", "1">> @@ STAKE :> <<"1", "0">>),
     (EVENTO :> <<"G">> @@ CASA :> <<"B", "e", "t">> @@ LUCRO :> <<"0", ",", "0", "0", "0", "0", "0", "0", "1">> @@ STAKE :> <<"1", "0">>),
     (EVENTO :> <<"a">> @@ CASA :> <<"P", "i", "n">> @@ LUCRO :> <<"-", "0", ",", "1">> @@ STAKE :> <<"1", "0">>)}

StatRecords == {recordOf(r, <<"A", "n", "a">>, <<"2", "0", "2", "5", "-", "1", "1", "-", "0", "1">>) : r \in StatRows}

InitStats ==
    /\ ApiAtRest
    /\ call \in [fn : {"buildStatsFromData"}, data : SeqsUpTo(StatRecords, MaxRecords)]
    /\ step = 0
    /\ out = [grupos |-> <<>>, result |-> <<>>]

\* const grupos = Array.from(gruposMap.values())
GroupRecords ==
    /\ call.fn = "buildStatsFromData"
    /\ step = 0
    /\ out' = [out EXCEPT !.grupos = valuesOf(groupData(call.data, <<>>))]
    /\ step' = 1
    /\ UNCHANGED <<call, apiVars>>

\* const result = buildStatsFromData(data, grupos)
BuildStats ==
    /\ call.fn = "buildStatsFromData"
    /\ step = 1
    /\ out' = [out EXCEPT !.result = <<buildStatsFromData(call.data, out.grupos)>>]
    /\ step' = 2
    /\ UNCHANGED <<call, apiVars>>

NextStats == GroupRecords \/ BuildStats

SpecStats == InitStats /\ [][NextStats]_vars

\* C8: greenPercent + redPercent is 100 when some entry has a lucroTotal
\* above 1e-6 or below -1e-6, and both are 0 when none has.
C8_PercentsSumTo100 ==
    (call.fn = "buildStatsFromData" /\ step = 2)
    => LET o == out.result[1].overview
           resolved == \E i \in DOMAIN out.grupos :
                          FLess(EPS, out.grupos[i].lucroTotal)
                          \/ FLess(out.grupos[i].lucroTotal, FNeg(EPS))
       IN IF resolved THEN FAdd(o.greenPercent, o.redPercent) = FromInt(100)
          ELSE o.greenPercent = Zero /\ o.redPercent = Zero

\* C9: the lucro of the porCasa buckets adds up to the lucro of the records
\* with a casa; no bucket has the empty casa; totalLucro adds all records.
C9_PorCasaSumsToRecords ==
    (call.fn = "buildStatsFromData" /\ step = 2)
    => LET r == out.result[1]
           withCasa == SelectSeq(call.data, HasCasa)
       IN /\ SumOf([i \in DOMAIN r.porCasa |-> r.porCasa[i].lucro], Zero)
             = SumOf([i \in DOMAIN withCasa |-> withCasa[i].lucro], Zero)
          /\ \A i \in DOMAIN r.porCasa : r.porCasa[i].casa # <<>>
          /\ r.overview.totalLucro = SumOf([i \in DOMAIN call.data |-> call.data[i].lucro], Zero)


(***************************************************************************)
(* The grouping loops of overview and overview-all, run on the same sheets *)
(* and rows in two orders.                                                 *)
(***************************************************************************)
\* rows of one sheet
MaxGroupRows == 2

\* sheets of one call
MaxGroupSheets == 2

\* four rows of one day: three legs of one event, and a leg of that event
\* written in lower case under another sport
GroupingRows ==
    {(DATA_APOSTA :> <<"0", "1", "/", "1", "1", "/", "2", "0", "2", "5">> @@ EVENTO :> <<"A", " ", "x", " ", "B">> @@ ESPORTE :> <<"F", "u", "t", "e", "b", "o", "l">> @@ LUCRO :> <<"0", ",", "1">> @@ STAKE :> <<"1", "0">>),
     (DATA_APOSTA :> <<"0", "1", "/", "1", "1", "/", "2", "0", "2", "5">> @@ EVENTO :> <<"A", " ", "x", " ", "B">> @@ ESPORTE :> <<"F", "u", "t", "e", "b", "o", "l">> @@ LUCRO :> <<"0", ",", "2">> @@ STAKE :> <<"1", "0">>),
     (DATA_APOSTA :> <<"0", "1", "/", "1", "1", "/", "2", "0", "2", "5">> @@ EVENTO :> <<"A", " ", "x", " ", "B">> @@ ESPORTE :> <<"F", "u", "t", "e", "b", "o", "l">> @@ LUCRO :> <<"0", ",", "3">> @@ STAKE :> <<"1", "0">>),
     (DATA_APOSTA :> <<"0", "1", "/", "1", "1", "/", "2", "0", "2", "5">> @@ EVENTO :> <<"a", " ", "x", " ", "b">> @@ ESPORTE :> <<"T", "e", "n", "i", "s">> @@ LUCRO :> <<"1">> @@ STAKE :> <<"1", "0">>)}

GroupingSheets ==
    [name : {<<"A", "n", "a">>, <<"B", "i", "a">>}, rows : SeqsUpTo(GroupingRows, MaxGroupRows)]

\* the orders in which the elements of s can be taken
Reorderings(s) ==
    {[i \in DOMAIN s |-> s[p[i]]] :
        p \in {f \in [DOMAIN s -> DOMAIN s] : \A i, j \in DOMAIN s : f[i] = f[j] => i = j}}

\* the orders in which the sheets, and the rows of each, can be taken
SheetOrders(sheets) ==
    UNION {{[i \in DOMAIN o |-> [name |-> o[i].name, rows |-> r[i]]] :
               r \in {x \in [DOMAIN o -> UNION {Reorderings(o[i].rows) : i \in DOMAIN o}] :
                         \A i \in DOMAIN o : x[i] \in Reorderings(o[i].rows)}} :
           o \in Reorderings(sheets)}

\* Array.from(gruposMap.values()) of the handler called
entriesOf(c) ==
    IF c.fn = "overview" THEN overviewRecords(c).grupos ELSE overviewAllRecords(c).grupos

\* the sheets of the call are the registered ones, with ids in their order,
\* and the cache holds the rows of each
InitGrouping ==
    /\ call \in [fn : {"overview"}, q : {[operador |-> <<>>, from |-> <<>>, to |-> <<>>]},
                 sheets : {<<s>> : s \in GroupingSheets}]
            \cup [fn : {"overview-all"}, q : {[operador |-> <<>>, from |-> <<>>, to |-> <<>>]},
                  sheets : SeqsUpTo(GroupingSheets, MaxGroupSheets) \ {<<>>}]
    /\ lastId = Len(call.sheets)
    /\ registry = DOMAIN call.sheets
    /\ remoteVer = 0
    /\ sheetRowsCache = [k \in DOMAIN call.sheets |-> FetchedRows(0)]
    /\ req = EmptyBag
    /\ refreshes = 0
    /\ deletedOk = {}
    /\ lastRead = [hit |-> FALSE, start |-> 0, began |-> 0]
    /\ step = 0
    /\ out = [sheets |-> <<>>, first |-> <<>>, again |-> <<>>]

\* the sheets read from the cache and the grouping loop over the sheets and
\* rows as listed
GroupInOrder ==
    /\ call.fn \in {"overview", "overview-all"}
    /\ step = 0
    /\ out' = [out EXCEPT !.first = entriesOf(call)]
    /\ step' = 1
    /\ getCachedSheetRows(DOMAIN call.sheets)
    /\ UNCHANGED call

\* the sheets read again, from the cache, and the grouping loop over the same
\* sheets and rows taken in some order
GroupReordered ==
    /\ call.fn \in {"overview", "overview-all"}
    /\ step = 1
    /\ \E sheets \in SheetOrders(call.sheets) :
          out' = [out EXCEPT !.sheets = sheets,
                             !.again  = entriesOf([call EXCEPT !.sheets = sheets])]
    /\ step' = 2
    /\ getCachedSheetRows(DOMAIN call.sheets)
    /\ UNCHANGED call

NextGrouping == GroupInOrder \/ GroupReordered

SpecGrouping == InitGrouping /\ [][NextGrouping]_vars

\* C11: the set of entries (dataAposta, operador, evento, esporte,
\* lucroTotal, stakeTotal) built by the grouping loop is the same for every
\* order in which the sheets and their rows are processed.
C11_GroupingOrderIndependent ==
    step = 2 => {out.again[i] : i \in DOMAIN out.again} = {out.first[i] : i \in DOMAIN out.first}

\* C12: with exactly one sheet registered, overview-all and overview for that
\* sheet answer the same for the same from, to, operador and rows: the same
\* status, records, entries and statistics.
C12_OverviewAllEqualsOverview ==
    (call.fn \in {"overview", "overview-all"} /\ step = 1 /\ Len(call.sheets) = 1)
    => out = IF call.fn = "overview" THEN overviewAllResponse(call) ELSE overviewResponse(call)

\* an overview-all answer over one sheet with an operador filter that keeps
\* the sheet, and records in it
C12_Witness ==
    /\ call.fn = "overview-all" /\ step = 1 /\ Len(call.sheets) = 1
    /\ call.q.operador # <<>>
    /\ out.status = 200 /\ out.data # <<>>
    /\ out = overviewResponse(call)

=============================================================================
